---- MODULE Spec2Model ----
(***************************************************************************)
(* Model of the document search core of pdf-search-backend:                *)
(*   - the sliding-window chunker (_chunk_text / chunk_text),              *)
(*   - DocumentProcessor: load, process_document, _save_index, search,     *)
(*   - the ingestion script's process_pdf,                                 *)
(*   - the two persisted files (FAISS index file, JSON metadata file),     *)
(*   - the documents table and the /search endpoint (search_pdf).          *)
(*                                                                         *)
(* A text is a sequence of tokens: 0 is a whitespace character, a positive *)
(* number is a word.  A vector is the embedding of a chunk's content.      *)
(***************************************************************************)
EXTENDS Integers, Sequences, FiniteSets, TLC

\* ------------------------------------------------------------- bounds
MaxTextLen == 4
NumWords == 2
MaxChunkSize == 3
MaxChunks == 6

MaxDocs == 2
MaxK == 3
MaxIngests == 3

\* ---------------------------------------------------- program constants
DefaultChunkSize == 300
DefaultOverlap == 50
DefaultK == 3

\* ------------------------------------------------------ size of inputs
LongWords == 260

VARIABLES
    \* chunker call (one call of _chunk_text / chunk_text)
    text, chunk_size, overlap, words, current_pos, chunks, starts, cpc,
    \* the two persisted files: [st |-> "missing" | "ok" | "corrupt", data |-> list]
    index_file, meta_file,
    \* per writer (a DocumentProcessor of a request, or the ingestion script)
    pc,         \* position: "idle", "loaded_index", "ready", "write_index", "write_meta"
    index,      \* the in-memory FAISS index: the list of its vectors
    metadata,   \* the in-memory metadata list
    result,     \* outcome of the writer's last operation
    pre,        \* history: memory and files as they were when the running call started
    next_id,    \* the next Document.id the database hands out
    returned,   \* what the writer's last completed process_document returned
    documents,  \* the rows of the documents table: [id, user_id]
    response,   \* the last /search request and what the endpoint answered
    last_search \* the last search call: its arguments and what it returned

chunkVars == <<text, chunk_size, overlap, words, current_pos, chunks, starts, cpc>>
fileVars == <<index_file, meta_file>>
procVars == <<pc, index, metadata, result, pre, next_id, returned, documents>>

vars == <<text, chunk_size, overlap, words, current_pos, chunks, starts, cpc,
          index_file, meta_file, pc, index, metadata, result, pre, next_id,
          returned, documents, response, last_search>>

\* ------------------------------------------------------------ helpers
Min(a, b) == IF a < b THEN a ELSE b
Max(a, b) == IF a > b THEN a ELSE b

SP == 0

\* str.split(): the maximal runs of non-whitespace characters, in order.
\* A word is one token here, so splitting drops the whitespace tokens.
Split(t) == SelectSeq(t, LAMBDA c : c # SP)

\* " ".join(ws): the words separated by single spaces.
Join(ws) ==
    [i \in 1..(IF Len(ws) = 0 THEN 0 ELSE 2 * Len(ws) - 1) |->
        IF i % 2 = 1 THEN ws[(i + 1) \div 2] ELSE SP]

\* Python's s[a:b] on a list, indices 0-based, negative ones counted from
\* the end, both clamped to the list.
PyIndex(n, i) == IF i < 0 THEN Max(i + n, 0) ELSE Min(i, n)
PySlice(s, a, b) ==
    LET lo == PyIndex(Len(s), a)
        hi == PyIndex(Len(s), b)
    IN  IF lo < hi THEN SubSeq(s, lo + 1, hi) ELSE <<>>

\* ------------------------------------------------------------ chunker
\* (a step one word too long)
StrideSkipsWord(cs, ov) == cs - ov + 1
\* The step of the window: current_pos += chunk_size - overlap.
Stride(cs, ov) == cs - ov

\* One pass through the body of the while loop, from position pos:
\* the chunk appended, the next position, and whether the loop breaks.
LoopBody(ws, cs, ov, pos) ==
    LET start_pos == pos
        end_pos == pos + cs
        chunk_words == PySlice(ws, start_pos, end_pos)
        next == pos + Stride(cs, ov)
    IN  [chunk |-> Join(chunk_words), start |-> start_pos,
         pos |-> next, brk |-> next >= Len(ws)]

\* _chunk_text(text, cs, ov) for a positive stride, as the list it returns.
RECURSIVE ChunkFrom(_, _, _, _)
ChunkFrom(ws, cs, ov, pos) ==
    IF ~(pos < Len(ws)) THEN <<>>
    ELSE LET b == LoopBody(ws, cs, ov, pos)
         IN  IF b.brk THEN <<b.chunk>>
             ELSE <<b.chunk>> \o ChunkFrom(ws, cs, ov, b.pos)

ChunkText(t, cs, ov) ==
    LET ws == Split(t) IN IF ws = <<>> THEN <<>> ELSE ChunkFrom(ws, cs, ov, 0)

\* ------------------------------------------------- documents and files
\* A name is its characters; an uploaded file has the pages a PDF reader
\* extracts from it and the text a plain read returns.
Lower(ch) ==
    CASE ch = "P" -> "p" [] ch = "D" -> "d" [] ch = "F" -> "f"
      [] ch = "T" -> "t" [] ch = "X" -> "x" [] OTHER -> ch

\* name.lower().endswith(suffix)
LowerEndsWith(name, suffix) ==
    /\ Len(name) >= Len(suffix)
    /\ \A i \in 1..Len(suffix) :
           Lower(name[Len(name) - Len(suffix) + i]) = suffix[i]

ExtPdf == <<".", "p", "d", "f">>
ExtTxt == <<".", "t", "x", "t">>

\* A text of LongWords words: more than one step of the default window,
\* less than one window.
LongText == Join([i \in 1..LongWords |-> 1 + (i % 2)])

\* The documents a caller may hand in.
Catalogue ==
    << [name |-> <<"a", ".", "t", "x", "t">>, pages |-> <<>>, data |-> <<1, 0, 2>>],
       [name |-> <<"b", ".", "P", "D", "F">>,
        pages |-> << <<2, 0, 2>>, <<>>, <<1>> >>, data |-> <<>>],
       [name |-> <<"e", ".", "p", "d", "f">>, pages |-> << <<>>, <<0>> >>, data |-> <<>>],
       [name |-> <<"w", ".", "t", "x", "t">>, pages |-> <<>>, data |-> <<>>],
       [name |-> <<"n", ".", "d", "o", "c">>, pages |-> <<>>, data |-> <<1>>],
       [name |-> <<"l", ".", "t", "x", "t">>, pages |-> <<>>, data |-> LongText],
       [name |-> <<"m", ".", "p", "d", "f">>,
        pages |-> << LongText, <<>>, <<2>> >>, data |-> <<>>] >>
AllFiles == 1..Len(Catalogue)
\* the documents of a few words
IsShort(f) ==
    /\ Len(Catalogue[f].data) < LongWords
    /\ \A i \in 1..Len(Catalogue[f].pages) : Len(Catalogue[f].pages[i]) < LongWords
Files == {f \in AllFiles : IsShort(f)}

Queries == { <<1>>, <<1, 0, 2>> }

\* model.encode: the embedding of a text, a point of the vector space
\* (here: the sum of its words and their number).
RECURSIVE SumRange(_, _, _)
SumRange(s, lo, hi) ==
    IF lo > hi THEN 0
    ELSE IF lo = hi THEN s[lo]
    ELSE LET mid == (lo + hi) \div 2
         IN  SumRange(s, lo, mid) + SumRange(s, mid + 1, hi)
SumSeq(s) == SumRange(s, 1, Len(s))
Embed(c) == <<SumSeq(Split(c)), Len(Split(c))>>

\* squared L2 distance, what IndexFlatL2 ranks by
L2(a, b) == (a[1] - b[1]) * (a[1] - b[1]) + (a[2] - b[2]) * (a[2] - b[2])

\* "if text:" is the truth value of a string: non-empty.
Truthy(t) == t # <<>>

\* The records process_document builds for one page (lines 79-88, 95-104).
PageRecords(t, document_id, original_name, page_num) ==
    IF ~Truthy(t) THEN <<>>
    ELSE LET page_chunks == ChunkText(t, DefaultChunkSize, DefaultOverlap)
         IN  [ci \in 1..Len(page_chunks) |->
                [document_id |-> document_id, pdf_name |-> original_name,
                 page |-> page_num, chunk_index |-> ci - 1,
                 content |-> page_chunks[ci]]]

RECURSIVE PdfRecords(_, _, _, _)
PdfRecords(pages, document_id, original_name, page_num) ==
    IF page_num > Len(pages) THEN <<>>
    ELSE PageRecords(pages[page_num], document_id, original_name, page_num)
         \o PdfRecords(pages, document_id, original_name, page_num + 1)

\* new_metadata of process_document (all_chunks is its content column).
NewMetadata(f, document_id) ==
    LET original_name == Catalogue[f].name
    IN  IF LowerEndsWith(original_name, ExtPdf)
          THEN PdfRecords(Catalogue[f].pages, document_id, original_name, 1)
        ELSE IF LowerEndsWith(original_name, ExtTxt)
          THEN PageRecords(Catalogue[f].data, document_id, original_name, 1)
        ELSE <<>>

\* the ingestion script's records: no document id, no chunk index
RECURSIVE ScriptRecords(_, _, _)
ScriptRecords(pages, pdf_filename, page_num) ==
    IF page_num > Len(pages) THEN <<>>
    ELSE (IF ~Truthy(pages[page_num]) THEN <<>>
          ELSE LET page_chunks ==
                       ChunkText(pages[page_num], DefaultChunkSize, DefaultOverlap)
               IN  [ci \in 1..Len(page_chunks) |->
                      [pdf_id |-> pdf_filename, page |-> page_num,
                       content |-> page_chunks[ci]]])
         \o ScriptRecords(pages, pdf_filename, page_num + 1)

\* model.encode(all_chunks): one vector per chunk, in order
Embeddings(recs) == [i \in 1..Len(recs) |-> Embed(recs[i].content)]

\* index.add(embeddings)
IndexAdd(idx, embeddings) == idx \o embeddings
\* self.metadata.extend(new_metadata)
MetadataExtend(md, new_metadata) == md \o new_metadata

\* ------------------------------------------------------------- files
\* The index file of a flat index: the float32 components of its vectors
\* one after the other, row by row.  (The header, with the dimension and
\* the number of vectors, is left to the length of the data.)
Dim == Len(Embed(<<>>))
\* (the components column by column)
FaissWriteColumnMajor(idx) ==
    [n \in 1..(Len(idx) * Dim) |->
        idx[((n - 1) % Len(idx)) + 1][((n - 1) \div Len(idx)) + 1]]
\* faiss.write_index: what it puts into the file
FaissWrite(idx) ==
    [n \in 1..(Len(idx) * Dim) |-> idx[((n - 1) \div Dim) + 1][((n - 1) % Dim) + 1]]
\* faiss.read_index: the rows of the file's data
FaissRead(codes) ==
    [i \in 1..(Len(codes) \div Dim) |-> [j \in 1..Dim |-> codes[(i - 1) * Dim + j]]]

\* The metadata file: a JSON array of objects.  An object is its members
\* <<key, value>> in the order the dict was built, a value is a string or
\* a number written in decimal digits.
RecordKeys == <<"document_id", "pdf_name", "pdf_id", "page", "chunk_index", "content">>
StrKeys == {"pdf_name", "pdf_id", "content"}
RECURSIVE Digits(_)
Digits(n) == IF n < 10 THEN <<n>> ELSE Append(Digits(n \div 10), n % 10)
RECURSIVE ParseDigits(_)
ParseDigits(ds) ==
    IF Len(ds) = 1 THEN ds[1]
    ELSE 10 * ParseDigits(SubSeq(ds, 1, Len(ds) - 1)) + ds[Len(ds)]
JsonValue(k, v) ==
    IF k \in StrKeys THEN [t |-> "string", v |-> v]
    ELSE [t |-> "number", v |-> Digits(v)]
PyValue(jv) == IF jv.t = "string" THEN jv.v ELSE ParseDigits(jv.v)
JsonObject(rec) ==
    LET ks == SelectSeq(RecordKeys, LAMBDA k : k \in DOMAIN rec)
    IN  [n \in 1..Len(ks) |-> <<ks[n], JsonValue(ks[n], rec[ks[n]])>>]
PyDict(obj) ==
    [k \in {obj[n][1] : n \in 1..Len(obj)} |->
        PyValue(obj[CHOOSE n \in 1..Len(obj) : obj[n][1] = k][2])]
\* json.dump(metadata, f)
JsonDump(md) == [i \in 1..Len(md) |-> JsonObject(md[i])]
\* json.load(f)
JsonLoad(doc) == [i \in 1..Len(doc) |-> PyDict(doc[i])]

Missing == [st |-> "missing", data |-> <<>>]
Corrupt == [st |-> "corrupt", data |-> <<>>]
RECURSIVE CommonPrefixLen(_, _)
CommonPrefixLen(a, b) ==
    IF a = <<>> \/ b = <<>> \/ Head(a) # Head(b) THEN 0
    ELSE 1 + CommonPrefixLen(Tail(a), Tail(b))
\* (a write that adds to the file what memory holds beyond what they share)
WriteFileMerging(old, mem) ==
    [st |-> "ok",
     data |-> old.data \o SubSeq(mem, CommonPrefixLen(old.data, mem) + 1, Len(mem))]
\* faiss.write_index / json.dump into a file opened with "w": the file
\* holds what was in memory, whatever it held before.
WriteFile(old, mem) == [st |-> "ok", data |-> mem]

Procs == {"p1", "p2"}
Script == "cli"
Writers == Procs \cup {Script}

NoPre == [index |-> <<>>, metadata |-> <<>>, index_file |-> Missing, meta_file |-> Missing]
NoReturn == [chunks_processed |-> 0, pages_processed |-> 0, document_id |-> 0]
NoResponse == [user |-> "none", pdf_id |-> <<>>, query |-> <<>>, status |-> "none",
               indices |-> <<>>, taken |-> <<>>, search_results |-> <<>>]
NoSearch == [proc |-> "none", query |-> <<>>, document_id |-> 0, k |-> 0,
             outcome |-> "none", indices |-> <<>>, taken |-> <<>>, results |-> <<>>,
             ntotal |-> 0, nmeta |-> 0]

\* ------------------------------------------------------------ search
\* row i of idx ranks before row j for the query vector qv (ties: the row
\* inserted first)
Closer(idx, qv, i, j) ==
    \/ L2(idx[i], qv) < L2(idx[j], qv)
    \/ L2(idx[i], qv) = L2(idx[j], qv) /\ i < j

NearestRow(idx, qv, r) ==
    CHOOSE i \in 1..Len(idx) :
        Cardinality({j \in 1..Len(idx) : Closer(idx, qv, j, i)}) = r - 1

\* index.search(query_embedding, k): k row labels (0-based) by ascending
\* distance; with fewer than k vectors the rest are label -1 (and the
\* largest float as distance, -1 here).
FaissLabels(idx, qv, k) ==
    [r \in 1..k |-> IF r <= Len(idx) THEN NearestRow(idx, qv, r) - 1 ELSE -1]
FaissDistances(idx, qv, k) ==
    [r \in 1..k |-> IF r <= Len(idx) THEN L2(idx[NearestRow(idx, qv, r)], qv) ELSE -1]

\* "if idx < len(self.metadata)"
InRange(idx, n) == idx < n

\* chunk_info.get("document_id"): None (0 here) when the key is absent
GetDocumentId(chunk_info) ==
    IF "document_id" \in DOMAIN chunk_info THEN chunk_info.document_id ELSE 0

\* "document_id is None or chunk_info.get('document_id') == document_id"
InScope(chunk_info, document_id) ==
    document_id = 0 \/ GetDocumentId(chunk_info) = document_id

\* The loop over the candidates (lines 153-164), from candidate i on.
\* A list index below -len raises IndexError, a missing key KeyError.
RECURSIVE SearchLoop(_, _, _, _, _, _)
SearchLoop(md, indices, distances, document_id, i, acc) ==
    IF i > Len(indices) THEN [acc EXCEPT !.outcome = "ok"]
    ELSE LET idx == indices[i]
             n == Len(md)
         IN  IF ~InRange(idx, n)
               THEN SearchLoop(md, indices, distances, document_id, i + 1, acc)
             ELSE IF idx < 0 /\ idx + n < 0
               THEN [acc EXCEPT !.outcome = "IndexError"]
             ELSE LET chunk_info == md[(IF idx < 0 THEN idx + n ELSE idx) + 1]
                  IN  IF ~InScope(chunk_info, document_id)
                        THEN SearchLoop(md, indices, distances, document_id, i + 1, acc)
                      ELSE IF ~({"content", "pdf_name", "page"} \subseteq DOMAIN chunk_info)
                        THEN [acc EXCEPT !.outcome = "KeyError"]
                      ELSE SearchLoop(md, indices, distances, document_id, i + 1,
                             [acc EXCEPT
                                !.taken = Append(@, i),
                                !.results = Append(@,
                                    [content |-> chunk_info.content,
                                     pdf_name |-> chunk_info.pdf_name,
                                     page |-> chunk_info.page,
                                     distance |-> distances[i]])])

\* DocumentProcessor.search(query, document_id, k): what it returns (or
\* raises), with the candidates it got from the index
SearchCall(idx, md, query, document_id, k) ==
    CHOOSE r \in
        { [SearchLoop(md, indices, distances, document_id, 1,
                      [outcome |-> "running", taken |-> <<>>, results |-> <<>>,
                       indices |-> <<>>])
             EXCEPT !.indices = indices] :
            indices \in {FaissLabels(idx, Embed(query), k)},
            distances \in {FaissDistances(idx, Embed(query), k)} } : TRUE

\* ----------------------------------------------------- the main system
\* (no check at all)
NoChunksAccepted(new_metadata) == FALSE
\* "if not all_chunks: raise ValueError" / the script's "return"
NoChunks(new_metadata) == new_metadata = <<>>

Snapshot(w) == [index |-> index[w], metadata |-> metadata[w],
                index_file |-> index_file, meta_file |-> meta_file]

MainInit ==
    /\ index_file = Missing
    /\ meta_file = Missing
    /\ pc = [w \in Writers |-> "idle"]
    /\ index = [w \in Writers |-> <<>>]
    /\ metadata = [w \in Writers |-> <<>>]
    /\ result = [w \in Writers |-> "none"]
    /\ pre = [w \in Writers |-> NoPre]
    /\ next_id = 1
    /\ returned = [w \in Writers |-> NoReturn]
    /\ documents = {}
    /\ response = NoResponse
    /\ last_search = NoSearch

ChunkIdle ==
    /\ text = <<>>
    /\ chunk_size = DefaultChunkSize
    /\ overlap = DefaultOverlap
    /\ words = <<>>
    /\ current_pos = 0
    /\ chunks = <<>>
    /\ starts = <<>>
    /\ cpc = "off"

Init == MainInit /\ ChunkIdle

\* The documents table (main.py, upload_document): the row is committed
\* before process_document runs and deleted when it raises.  A processor
\* serves one request at a time; UserOf is the user of its requests.
Users == {"u1", "u2"}
UserOf(p) == IF p = "p2" THEN "u2" ELSE "u1"
DocumentRow(id, user_id) == [id |-> id, user_id |-> user_id]

\* DocumentProcessor(): _load_existing_index, first read (line 27).  A new
\* processor takes the place of the request's previous one.
LoadIndex(p) ==
    /\ pc[p] \in {"idle", "ready"}
    /\ metadata' = [metadata EXCEPT ![p] = <<>>]
    /\ CASE index_file.st = "ok" ->
              /\ index' = [index EXCEPT ![p] = FaissRead(index_file.data)]
              /\ pc' = [pc EXCEPT ![p] = "loaded_index"]
              /\ result' = [result EXCEPT ![p] = "loading"]
         [] index_file.st = "missing" ->
              /\ index' = [index EXCEPT ![p] = <<>>]
              /\ pc' = [pc EXCEPT ![p] = "ready"]
              /\ result' = [result EXCEPT ![p] = "loaded"]
         [] OTHER ->
              /\ index' = [index EXCEPT ![p] = <<>>]
              /\ pc' = [pc EXCEPT ![p] = "idle"]
              /\ result' = [result EXCEPT ![p] = "load_error"]
    /\ returned' = [returned EXCEPT ![p] = NoReturn]
    /\ last_search' = NoSearch
    /\ response' = NoResponse
    /\ UNCHANGED <<index_file, meta_file, pre, next_id, documents>>
    /\ UNCHANGED chunkVars

\* _load_existing_index, second read (lines 28-29) and the except branch
LoadMeta(p) ==
    /\ pc[p] = "loaded_index"
    /\ CASE meta_file.st = "ok" ->
              /\ metadata' = [metadata EXCEPT ![p] = JsonLoad(meta_file.data)]
              /\ index' = index
              /\ pc' = [pc EXCEPT ![p] = "ready"]
              /\ result' = [result EXCEPT ![p] = "loaded"]
         [] meta_file.st = "missing" ->
              /\ metadata' = [metadata EXCEPT ![p] = <<>>]
              /\ index' = [index EXCEPT ![p] = <<>>]
              /\ pc' = [pc EXCEPT ![p] = "ready"]
              /\ result' = [result EXCEPT ![p] = "loaded"]
         [] OTHER ->
              /\ metadata' = [metadata EXCEPT ![p] = <<>>]
              /\ index' = [index EXCEPT ![p] = <<>>]
              /\ pc' = [pc EXCEPT ![p] = "idle"]
              /\ result' = [result EXCEPT ![p] = "load_error"]
    /\ last_search' = NoSearch
    /\ response' = NoResponse
    /\ UNCHANGED <<index_file, meta_file, pre, next_id, returned, documents>>
    /\ UNCHANGED chunkVars

\* process_document up to the save (lines 60-121): extraction, embedding,
\* index.add, metadata.extend.  The database gives each call a fresh id.
ProcessDocument(p, f) ==
    /\ pc[p] = "ready"
    /\ next_id' = next_id + 1
    /\ LET new_metadata == NewMetadata(f, next_id)
       IN  IF NoChunks(new_metadata)
           THEN /\ result' = [result EXCEPT ![p] = "err_extract"]
                /\ UNCHANGED <<pc, index, metadata, pre, documents>>
           ELSE \E outcome \in {"running", "err_embed", "err_add"} :
                  /\ result' = [result EXCEPT ![p] = outcome]
                  /\ IF outcome = "running"
                     THEN /\ index' = [index EXCEPT ![p] =
                                         IndexAdd(@, Embeddings(new_metadata))]
                          /\ metadata' = [metadata EXCEPT ![p] =
                                         MetadataExtend(@, new_metadata)]
                          /\ pc' = [pc EXCEPT ![p] = "write_index"]
                          /\ pre' = [pre EXCEPT ![p] = Snapshot(p)]
                          /\ documents' = documents \cup {DocumentRow(next_id, UserOf(p))}
                     ELSE UNCHANGED <<pc, index, metadata, pre, documents>>
    /\ returned' = [returned EXCEPT ![p] = NoReturn]
    /\ last_search' = NoSearch
    /\ response' = NoResponse
    /\ UNCHANGED <<index_file, meta_file>>
    /\ UNCHANGED chunkVars

\* process_pdf of the ingestion script up to the save (lines 32-82): a new
\* index holding the one document
ScriptIngest(f) ==
    /\ pc[Script] = "idle"
    /\ next_id' = next_id + 1
    /\ LET all_metadata == ScriptRecords(Catalogue[f].pages, Catalogue[f].name, 1)
       IN  IF NoChunks(all_metadata)
           THEN /\ result' = [result EXCEPT ![Script] = "err_extract"]
                /\ UNCHANGED <<pc, index, metadata, pre>>
           ELSE /\ result' = [result EXCEPT ![Script] = "running"]
                /\ index' = [index EXCEPT ![Script] =
                               IndexAdd(<<>>, Embeddings(all_metadata))]
                /\ metadata' = [metadata EXCEPT ![Script] = all_metadata]
                /\ pc' = [pc EXCEPT ![Script] = "write_index"]
                /\ pre' = [pre EXCEPT ![Script] = Snapshot(Script)]
    /\ last_search' = NoSearch
    /\ response' = NoResponse
    /\ UNCHANGED <<index_file, meta_file, returned, documents>>
    /\ UNCHANGED chunkVars

\* new_metadata of the call under way: what it appended to the metadata
NewRecords(w) ==
    SubSeq(metadata[w], Len(pre[w].metadata) + 1, Len(metadata[w]))

\* (the size of the whole store instead of the call's own chunks)
ChunksProcessedOfStore(w, new_metadata) == Len(metadata[w])
\* "chunks_processed": len(all_chunks)
ChunksProcessed(w, new_metadata) == Len(new_metadata)

\* the dict process_document returns (lines 128-132)
ReturnValue(w, new_metadata) ==
    [chunks_processed |-> ChunksProcessed(w, new_metadata),
     pages_processed |->
        Cardinality({new_metadata[i].page : i \in 1..Len(new_metadata)}),
     document_id |-> new_metadata[1].document_id]

\* "db.delete(document)" of the upload whose process_document raised
WithoutRowOf(w) ==
    IF w = Script THEN documents
    ELSE {row \in documents : row.id # NewRecords(w)[1].document_id}

\* Where a writer stands when its operation ends: a processor lives on with
\* what it holds, the script's process exits.
Rest(w) == IF w = Script THEN "idle" ELSE "ready"
Kept(mem, w) == IF w = Script THEN [mem EXCEPT ![w] = <<>>] ELSE mem

\* faiss.write_index(index, path) (line 136; script line 85)
WriteIndexFile(w) ==
    /\ pc[w] = "write_index"
    /\ index_file' = WriteFile(index_file, FaissWrite(index[w]))
    /\ pc' = [pc EXCEPT ![w] = "write_meta"]
    /\ last_search' = NoSearch
    /\ response' = NoResponse
    /\ UNCHANGED <<meta_file, index, metadata, result, pre, next_id, returned, documents>>
    /\ UNCHANGED chunkVars

\* the write raises: the file is as it was (it could not be opened) or is
\* left truncated
WriteIndexFails(w) ==
    /\ pc[w] = "write_index"
    /\ index_file' \in {index_file, Corrupt}
    /\ pc' = [pc EXCEPT ![w] = Rest(w)]
    /\ result' = [result EXCEPT ![w] = "err_write_index"]
    /\ index' = Kept(index, w)
    /\ metadata' = Kept(metadata, w)
    /\ pre' = [pre EXCEPT ![w] = NoPre]
    /\ last_search' = NoSearch
    /\ response' = NoResponse
    /\ documents' = WithoutRowOf(w)
    /\ UNCHANGED <<meta_file, next_id, returned>>
    /\ UNCHANGED chunkVars

\* json.dump(metadata, open(path, "w")) (lines 137-138; script 86-87)
WriteMetaFile(w) ==
    /\ pc[w] = "write_meta"
    /\ meta_file' = WriteFile(meta_file, JsonDump(metadata[w]))
    /\ pc' = [pc EXCEPT ![w] = Rest(w)]
    /\ result' = [result EXCEPT ![w] = "ok"]
    /\ returned' = [returned EXCEPT ![w] =
                       IF w = Script THEN NoReturn ELSE ReturnValue(w, NewRecords(w))]
    /\ index' = Kept(index, w)
    /\ metadata' = Kept(metadata, w)
    /\ pre' = [pre EXCEPT ![w] = NoPre]
    /\ last_search' = NoSearch
    /\ response' = NoResponse
    /\ UNCHANGED <<index_file, next_id, documents>>
    /\ UNCHANGED chunkVars

WriteMetaFails(w) ==
    /\ pc[w] = "write_meta"
    /\ meta_file' \in {meta_file, Corrupt}
    /\ pc' = [pc EXCEPT ![w] = Rest(w)]
    /\ result' = [result EXCEPT ![w] = "err_write_meta"]
    /\ index' = Kept(index, w)
    /\ metadata' = Kept(metadata, w)
    /\ pre' = [pre EXCEPT ![w] = NoPre]
    /\ last_search' = NoSearch
    /\ response' = NoResponse
    /\ documents' = WithoutRowOf(w)
    /\ UNCHANGED <<index_file, next_id, returned>>
    /\ UNCHANGED chunkVars

\* DocumentProcessor.search on a loaded processor.  A search changes
\* nothing but last_search, so one search between two other steps shows
\* all a run of searches can.
Search(p, query, document_id, k) ==
    /\ pc[p] = "ready"
    /\ last_search = NoSearch
    /\ \E r \in {SearchCall(index[p], metadata[p], query, document_id, k)} :
          last_search' =
             [proc |-> p, query |-> query, document_id |-> document_id, k |-> k,
              outcome |-> r.outcome, indices |-> r.indices,
              taken |-> r.taken, results |-> r.results,
              ntotal |-> Len(index[p]), nmeta |-> Len(metadata[p])]
    /\ UNCHANGED <<fileVars, procVars, response>>
    /\ UNCHANGED chunkVars

\* ------------------------------------------------ the /search endpoint
\* pdf_id is a string: its characters
DigitChars == <<"0", "1", "2", "3", "4", "5", "6", "7", "8", "9">>
IsDigit(ch) == \E d \in 1..Len(DigitChars) : DigitChars[d] = ch
DigitOf(ch) == (CHOOSE d \in 1..Len(DigitChars) : DigitChars[d] = ch) - 1
\* str(n)
Numeral(n) == [i \in 1..Len(Digits(n)) |-> DigitChars[Digits(n)[i] + 1]]
\* int(pdf_id) raises ValueError unless the string is a number
IsNumeral(str) == str # <<>> /\ \A i \in 1..Len(str) : IsDigit(str[i])
ParseInt(str) == ParseDigits([i \in 1..Len(str) |-> DigitOf(str[i])])

\* db.query(Document).filter(Document.id == id, Document.user_id == user.id)
OwnsDocument(u, id) == DocumentRow(id, u) \in documents
\* [doc.id for doc in user.documents]
UserDocumentIds(u) == {row.id : row \in {r \in documents : r.user_id = u}}

\* DocumentProcessor() in one piece: what _load_existing_index gives
LoadExisting(ifile, mfile) ==
    IF ifile.st = "ok" /\ mfile.st = "ok"
      THEN [outcome |-> "ok", index |-> FaissRead(ifile.data),
            metadata |-> JsonLoad(mfile.data)]
    ELSE IF ifile.st = "missing" \/ (ifile.st = "ok" /\ mfile.st = "missing")
      THEN [outcome |-> "ok", index |-> <<>>, metadata |-> <<>>]
    ELSE [outcome |-> "error", index |-> <<>>, metadata |-> <<>>]

\* [result for result in search_results
\*    if any(doc_id in result.get('pdf_name', '') for doc_id in user_document_ids)]
\* doc_id is an int and pdf_name a str: the first test of "in" raises
\* TypeError; without results or without ids no test is made and the list
\* is empty.
FilterToUser(md, r, ids) ==
    IF r.results = <<>> \/ ids = {}
      THEN [outcome |-> "ok", taken |-> <<>>, results |-> <<>>]
    ELSE [outcome |-> "TypeError", taken |-> <<>>, results |-> <<>>]

\* search_pdf after authentication (main.py lines 119-196): the response
\* to user u's request; llm is how the call of the language model ends
SearchPdfResponse(u, pdf_id, query, llm) ==
    LET base == [user |-> u, pdf_id |-> pdf_id, query |-> query, status |-> "none",
                 indices |-> <<>>, taken |-> <<>>, search_results |-> <<>>]
        answer(indices, taken, results) ==
            IF results = <<>>
              THEN [base EXCEPT !.status = "200", !.indices = indices]
            ELSE IF llm # "ok"
              THEN [base EXCEPT !.status = "500_llm", !.indices = indices]
            ELSE [base EXCEPT !.status = "200", !.indices = indices,
                              !.taken = taken, !.search_results = results]
    IN  IF Truthy(pdf_id) /\ ~IsNumeral(pdf_id)
          THEN [base EXCEPT !.status = "400"]
        ELSE IF Truthy(pdf_id) /\ ~OwnsDocument(u, ParseInt(pdf_id))
          THEN [base EXCEPT !.status = "403"]
        ELSE LET ld == LoadExisting(index_file, meta_file)
             IN  IF ld.outcome # "ok" THEN [base EXCEPT !.status = "500_load"]
                 ELSE LET r == SearchCall(ld.index, ld.metadata, query,
                                          IF Truthy(pdf_id) THEN ParseInt(pdf_id) ELSE 0,
                                          DefaultK)
                      IN  IF r.outcome # "ok"
                            THEN [base EXCEPT !.status = "500_search",
                                              !.indices = r.indices]
                          ELSE IF Truthy(pdf_id)
                            THEN answer(r.indices, r.taken, r.results)
                          ELSE LET kept == FilterToUser(ld.metadata, r, UserDocumentIds(u))
                               IN  IF kept.outcome # "ok"
                                     THEN [base EXCEPT !.status = "500_filter",
                                                       !.indices = r.indices]
                                   ELSE answer(r.indices, kept.taken, kept.results)

\* POST /search by user u.  A request changes nothing but response, so one
\* request between two other steps shows all a run of requests can.
SearchPdf(u, pdf_id, query) ==
    /\ response = NoResponse
    /\ \E llm \in {"ok", "error"} :
          \E r \in {SearchPdfResponse(u, pdf_id, query, llm)} : response' = r
    /\ UNCHANGED <<fileVars, procVars, last_search>>
    /\ UNCHANGED chunkVars

\* ---- requests served one after the other: one processor at a time and
\* the script, no operation starting while another is under way
Server == "p1"
\* the runs end after max documents
IdsLeft(max) == next_id <= max
AtRest(w) == pc[w] \in {"idle", "ready"}
Serial(w) == \A v \in Writers \ {w} : AtRest(v)

Next ==
    \/ Serial(Server) /\ LoadIndex(Server)
    \/ LoadMeta(Server)
    \/ \E f \in Files : IdsLeft(MaxDocs) /\ Serial(Server) /\ ProcessDocument(Server, f)
    \/ \E f \in Files : IdsLeft(MaxDocs) /\ Serial(Script) /\ ScriptIngest(f)
    \/ \E w \in {Server, Script} : WriteIndexFile(w)
    \/ \E w \in {Server, Script} : WriteIndexFails(w)
    \/ \E w \in {Server, Script} : WriteMetaFile(w)
    \/ \E w \in {Server, Script} : WriteMetaFails(w)
    \/ \E q \in Queries, d \in 0..MaxDocs, k \in 1..MaxK : Search(Server, q, d, k)

Spec == Init /\ [][Next]_vars

\* ---- uploads of one user served one after the other, long documents
\* among them
NextIngest ==
    \/ LoadIndex(Server)
    \/ LoadMeta(Server)
    \/ \E f \in AllFiles : IdsLeft(MaxIngests) /\ ProcessDocument(Server, f)
    \/ WriteIndexFile(Server)
    \/ WriteIndexFails(Server)
    \/ WriteMetaFile(Server)
    \/ WriteMetaFails(Server)

SpecIngest == Init /\ [][NextIngest]_vars

\* ---- the two users' requests, uploads and searches, served one after the
\* other; every upload builds its processor anew
PdfIds == {<<>>, <<"x">>} \cup {Numeral(d) : d \in 0..MaxDocs}
NextApi ==
    \/ \E p \in Procs : Serial(p) /\ LoadIndex(p)
    \/ \E p \in Procs : LoadMeta(p)
    \/ \E p \in Procs, f \in Files :
          IdsLeft(MaxDocs) /\ Serial(p) /\ result[p] = "loaded" /\ ProcessDocument(p, f)
    \/ \E p \in Procs : WriteIndexFile(p)
    \/ \E p \in Procs : WriteIndexFails(p)
    \/ \E p \in Procs : WriteMetaFile(p)
    \/ \E p \in Procs : WriteMetaFails(p)
    \/ \E u \in Users, id \in PdfIds, q \in Queries :
          (\A w \in Writers : AtRest(w)) /\ SearchPdf(u, id, q)

SpecApi == Init /\ [][NextApi]_vars

\* ---- requests served concurrently: each request has its own processor,
\* and their steps interleave freely
NextConc ==
    \/ \E p \in Procs : LoadIndex(p)
    \/ \E p \in Procs : LoadMeta(p)
    \/ \E p \in Procs, f \in Files : IdsLeft(MaxDocs) /\ ProcessDocument(p, f)
    \/ \E p \in Procs : WriteIndexFile(p)
    \/ \E p \in Procs : WriteIndexFails(p)
    \/ \E p \in Procs : WriteMetaFile(p)
    \/ \E p \in Procs : WriteMetaFails(p)

SpecConc == Init /\ [][NextConc]_vars

\* ---- one request ingesting while another request only loads
Writer == "p1"
Loader == "p2"
NextRead ==
    \/ \E p \in {Writer, Loader} : LoadIndex(p)
    \/ \E p \in {Writer, Loader} : LoadMeta(p)
    \/ \E f \in Files : IdsLeft(MaxDocs) /\ ProcessDocument(Writer, f)
    \/ WriteIndexFile(Writer)
    \/ WriteIndexFails(Writer)
    \/ WriteMetaFile(Writer)
    \/ WriteMetaFails(Writer)

SpecRead == Init /\ [][NextRead]_vars

\* ---- one request ingesting and another loading, one after the other
NextRound ==
    \/ \E p \in {Writer, Loader} : Serial(p) /\ LoadIndex(p)
    \/ \E p \in {Writer, Loader} : LoadMeta(p)
    \/ \E f \in AllFiles : IdsLeft(MaxDocs) /\ Serial(Writer) /\ ProcessDocument(Writer, f)
    \/ WriteIndexFile(Writer)
    \/ WriteIndexFails(Writer)
    \/ WriteMetaFile(Writer)
    \/ WriteMetaFails(Writer)

SpecRound == Init /\ [][NextRound]_vars

\* ---- the chunker call, statement by statement
Tokens == 0..NumWords

RECURSIVE SeqsUpTo(_, _)
SeqsUpTo(S, n) ==
    IF n = 0 THEN {<<>>}
    ELSE LET shorter == SeqsUpTo(S, n - 1)
         IN  shorter \cup {Append(s, x) : s \in {q \in shorter : Len(q) = n - 1}, x \in S}

ChunkInit ==
    /\ text \in SeqsUpTo(Tokens, MaxTextLen)
    /\ chunk_size \in 1..MaxChunkSize
    /\ overlap \in 0..(MaxChunkSize + 1)
    /\ words = <<>>
    /\ current_pos = 0
    /\ chunks = <<>>
    /\ starts = <<>>
    /\ cpc = "call"
    /\ MainInit

\* words = text.split(); if not words: return []
ChunkCall ==
    /\ cpc = "call"
    /\ words' = Split(text)
    /\ cpc' = IF Split(text) = <<>> THEN "done" ELSE "loop"
    /\ UNCHANGED <<text, chunk_size, overlap, current_pos, chunks, starts>>
    /\ UNCHANGED <<fileVars, procVars, response, last_search>>

\* one iteration of `while current_pos < len(words)`
ChunkIter ==
    /\ cpc = "loop"
    /\ current_pos < Len(words)
    /\ Len(chunks) < MaxChunks
    /\ LET b == LoopBody(words, chunk_size, overlap, current_pos)
       IN  /\ chunks' = Append(chunks, b.chunk)
           /\ starts' = Append(starts, b.start)
           /\ current_pos' = b.pos
           /\ cpc' = IF b.brk THEN "done" ELSE "loop"
    /\ UNCHANGED <<text, chunk_size, overlap, words>>
    /\ UNCHANGED <<fileVars, procVars, response, last_search>>

ChunkNext == ChunkCall \/ ChunkIter

SpecChunk == ChunkInit /\ [][ChunkNext]_vars

\* =================================================================
\* The claims
\* =================================================================
IsPrefix(a, b) == Len(a) <= Len(b) /\ SubSeq(b, 1, Len(a)) = a
\* what a file holds: the vectors of the index file, the records of the
\* metadata file
FileVectors(file) == FaissRead(file.data)
FileRecords(file) == JsonLoad(file.data)

\* record i describes vector i: the vector is the embedding of the content
Paired(idx, md) ==
    /\ Len(md) = Len(idx)
    /\ \A i \in 1..Len(md) : idx[i] = Embed(md[i].content)

\* C1: between calls, a processor that only loads and ingests (the script
\* never ran) holds as many metadata records as index vectors, and record
\* i is the one created with vector i.
C1_ParallelArrays ==
    (result[Script] = "none" /\ pc[Server] = "ready")
        => Paired(index[Server], metadata[Server])

FailedStep(p) ==
    \/ \E f \in Files : ProcessDocument(p, f) /\ result'[p] # "running"
    \/ WriteIndexFails(p)
    \/ WriteMetaFails(p)
Before(p) == IF pc[p] \in {"write_index", "write_meta"} THEN pre[p] ELSE Snapshot(p)
\* C2: a process_document call that fails, at whatever step, leaves the
\* processor's index and metadata and the two files as they were when the
\* call started.
C2_NoPartialCommit ==
    [][FailedStep(Server) =>
          /\ index'[Server] = Before(Server).index
          /\ metadata'[Server] = Before(Server).metadata
          /\ index_file' = Before(Server).index_file
          /\ meta_file' = Before(Server).meta_file]_vars

HasNoWords(t) == Split(t) = <<>>
Chunkless(f) ==
    LET name == Catalogue[f].name
    IN  \/ /\ LowerEndsWith(name, ExtPdf)
           /\ \A i \in 1..Len(Catalogue[f].pages) : HasNoWords(Catalogue[f].pages[i])
        \/ /\ ~LowerEndsWith(name, ExtPdf)
           /\ LowerEndsWith(name, ExtTxt)
           /\ HasNoWords(Catalogue[f].data)
        \/ /\ ~LowerEndsWith(name, ExtPdf)
           /\ ~LowerEndsWith(name, ExtTxt)
Errors == {"err_extract", "err_embed", "err_add", "err_write_index", "err_write_meta"}
\* C4: a process_document call on a document with no chunks ends in an
\* error and changes neither the processor's index and metadata nor the
\* files.
C4_NoChunksRejected ==
    [][\A f \in Files :
          (Chunkless(f) /\ ProcessDocument(Server, f)) =>
              /\ result'[Server] \in Errors
              /\ pc'[Server] = "ready"
              /\ index' = index
              /\ metadata' = metadata
              /\ index_file' = index_file
              /\ meta_file' = meta_file]_vars
\* C4 witness: a call was rejected for want of text while the files held
\* an ingested document
C4_Witness ==
    /\ result[Server] = "err_extract"
    /\ index_file.st = "ok" /\ Len(FileVectors(index_file)) > 0
    /\ meta_file.st = "ok" /\ Len(FileRecords(meta_file)) > 0

\* C5: with one processor ingesting, a second processor that has loaded
\* never holds more metadata records than its index holds vectors.
C5_ReaderNeverAhead ==
    (pc[Loader] = "ready" /\ result[Loader] = "loaded")
        => Len(metadata[Loader]) <= Len(index[Loader])

\* C6: when an ingestion (process_document or the script's process_pdf)
\* succeeds, the vectors and records the files held when it started are
\* still in the files, unchanged and at the same positions.
C6_AppendOnly ==
    [][\A w \in {Server, Script} :
          WriteMetaFile(w) =>
              /\ IsPrefix(FileVectors(pre[w].index_file), FileVectors(index_file'))
              /\ IsPrefix(FileRecords(pre[w].meta_file), FileRecords(meta_file'))]_vars

LastDoc(md) == md[Len(md)].document_id
HasDoc(md, d) == \E i \in 1..Len(md) : md[i].document_id = d
Uploaded(p) == pc[p] = "ready" /\ result[p] = "ok"
BlindPair(p, q) ==
    /\ p # q
    /\ Uploaded(p) /\ Uploaded(q)
    /\ ~HasDoc(metadata[p], LastDoc(metadata[q]))
    /\ ~HasDoc(metadata[q], LastDoc(metadata[p]))
PersistedSound(p, q) ==
    /\ index_file.st = "ok" /\ meta_file.st = "ok"
    /\ Paired(FileVectors(index_file), FileRecords(meta_file))
    /\ HasDoc(FileRecords(meta_file), LastDoc(metadata[p]))
    /\ HasDoc(FileRecords(meta_file), LastDoc(metadata[q]))
\* C7: two uploads that both succeed, neither processor having seen the
\* other's document, leave a persisted pair that is corrupt: the files
\* differ in length, or some record does not describe its vector, or the
\* chunks of one of the two documents are missing.
C7_ConcurrentUploadsCorrupt ==
    \A p \in Procs, q \in Procs : BlindPair(p, q) => ~PersistedSound(p, q)
\* C7 witness: both uploads succeeded and the two files, both written in
\* full, differ in length
C7_Witness ==
    \E p \in Procs, q \in Procs :
        /\ BlindPair(p, q)
        /\ index_file.st = "ok" /\ meta_file.st = "ok"
        /\ Len(FileVectors(index_file)) # Len(FileRecords(meta_file))

Searched == last_search.proc # "none"
Searcher == last_search.proc
IsRow(r, n) == 0 <= r /\ r < n
MatchingCandidates(md, indices, X) ==
    SelectSeq([i \in 1..Len(indices) |-> i],
              LAMBDA i : /\ IsRow(indices[i], Len(md))
                         /\ GetDocumentId(md[indices[i] + 1]) = X)
EntryOf(rec) == [content |-> rec.content, pdf_name |-> rec.pdf_name, page |-> rec.page]
Undistanced(e) == [content |-> e.content, pdf_name |-> e.pdf_name, page |-> e.page]
\* C3: a search scoped to document X that returns, returns entries of
\* records of X only, at most k of them, and exactly one entry for each of
\* the candidate rows whose record is of X, in the candidates' order.
C3_ScopedSearch ==
    (Searched /\ last_search.document_id # 0 /\ last_search.outcome = "ok") =>
        LET md == metadata[Searcher]
            want == MatchingCandidates(md, last_search.indices, last_search.document_id)
        IN  /\ Len(last_search.results) <= last_search.k
            /\ last_search.taken = want
            /\ \A j \in 1..Len(last_search.results) :
                 \E i \in 1..Len(md) :
                    /\ GetDocumentId(md[i]) = last_search.document_id
                    /\ Undistanced(last_search.results[j]) = EntryOf(md[i])

\* C8: every search completes without error, returns at most
\* min(k, index size) entries, and takes each entry from a candidate row r
\* with 0 <= r < len(metadata).
C8_SearchBounds ==
    Searched =>
        /\ last_search.outcome = "ok"
        /\ Len(last_search.results) <= Min(last_search.k, last_search.ntotal)
        /\ \A j \in 1..Len(last_search.taken) :
             IsRow(last_search.indices[last_search.taken[j]], last_search.nmeta)

RECURSIVE Deoverlapped(_, _, _)
Deoverlapped(cks, step, i) ==
    IF i > Len(cks) THEN <<>>
    ELSE LET cur == Split(cks[i])
             shared == IF i = 1 THEN 0
                       ELSE Min(Len(cur), Max(0, Len(Split(cks[i - 1])) - step))
         IN  SubSeq(cur, shared + 1, Len(cur)) \o Deoverlapped(cks, step, i + 1)
\* C9: with 0 <= overlap < chunk_size the finished chunker has returned
\* chunks of at most chunk_size words, chunk i (0-based) starting at word
\* i * (chunk_size - overlap), whose concatenation, each chunk without the
\* words it shares with the chunk before it, is the input's word sequence;
\* a text without words gives no chunk.
C9_ChunksReconstruct ==
    (cpc = "done" /\ overlap < chunk_size) =>
        /\ \A i \in 1..Len(chunks) : Len(Split(chunks[i])) <= chunk_size
        /\ \A i \in 1..Len(chunks) :
              /\ starts[i] = (i - 1) * (chunk_size - overlap)
              /\ starts[i] < Len(Split(text))
              /\ Split(chunks[i]) =
                    SubSeq(Split(text), starts[i] + 1,
                           Min(starts[i] + chunk_size, Len(Split(text))))
        /\ Deoverlapped(chunks, chunk_size - overlap, 1) = Split(text)
        /\ (Split(text) = <<>> => chunks = <<>>)
\* C9 witness: a finished call that returned three chunks with words
\* shared between neighbours
C9_Witness ==
    /\ cpc = "done"
    /\ 0 < overlap /\ overlap < chunk_size
    /\ Len(chunks) >= 3

\* C10: with overlap < chunk_size the loop runs at most once per word and
\* so ends; with overlap >= chunk_size a call on a text with words is
\* rejected: it never enters the loop.
C10_TerminatesOrRejects ==
    /\ overlap < chunk_size => Len(chunks) <= Len(Split(text))
    /\ (overlap >= chunk_size /\ Split(text) # <<>>) => cpc \notin {"loop", "done"}
\* (the first half of C10 by itself)
C10_PositiveStrideTerminates ==
    overlap < chunk_size =>
        /\ Len(chunks) <= Len(Split(text))
        /\ cpc = "loop" => current_pos < Len(words) /\ Len(chunks) < MaxChunks

WordCount(t) == Len(Split(t))
IsTxt(f) ==
    /\ ~LowerEndsWith(Catalogue[f].name, ExtPdf)
    /\ LowerEndsWith(Catalogue[f].name, ExtTxt)
IsPdf(f) == LowerEndsWith(Catalogue[f].name, ExtPdf)
FileNamed(name) == CHOOSE f \in AllFiles : Catalogue[f].name = name
DocRecords(md, d) == SelectSeq(md, LAMBDA r : GetDocumentId(r) = d)
HasReturned(p) == returned[p] # NoReturn
\* the records of the document the last completed call ingested
ReturnedRecords(p) == DocRecords(metadata[p], returned[p].document_id)
ReturnedFile(p) == FileNamed(ReturnedRecords(p)[1].pdf_name)
\* a completed ingestion of a .txt document of 1..maxWords words made one
\* chunk holding all its words and reported one chunk and one page
OneChunkReported(maxWords) ==
    HasReturned(Server) =>
        LET recs == ReturnedRecords(Server)
            f == ReturnedFile(Server)
        IN  (IsTxt(f) /\ WordCount(Catalogue[f].data) \in 1..maxWords) =>
                /\ returned[Server].chunks_processed = 1
                /\ returned[Server].pages_processed = 1
                /\ Len(recs) = 1
                /\ Split(recs[1].content) = Split(Catalogue[f].data)
\* C11: a .txt document whose text has between 1 and chunk_size words is
\* ingested as exactly one chunk that holds all its words, and the call
\* reports chunks_processed = 1 and pages_processed = 1.
C11_OneWindowOneChunk == OneChunkReported(DefaultChunkSize)
\* C11 amended: the same for a text of between 1 and chunk_size - overlap
\* words, one step of the window.
C11_OneStrideOneChunk == OneChunkReported(DefaultChunkSize - DefaultOverlap)
\* C11 witness: a short .txt document was ingested into a store that
\* already held another document, and the call returned
C11_Witness ==
    /\ HasReturned(Server)
    /\ IsTxt(ReturnedFile(Server))
    /\ WordCount(Catalogue[ReturnedFile(Server)].data) >= 1
    /\ returned[Server].chunks_processed = 1
    /\ Len(metadata[Server]) > 1
\* (C11 for the chunker alone, any chunk_size and overlap: one step)
C11_ChunkerOneStride ==
    (cpc = "done" /\ WordCount(text) >= 1 /\ WordCount(text) <= chunk_size - overlap) =>
        /\ Len(chunks) = 1
        /\ Split(chunks[1]) = Split(text)
\* (C11 for the chunker alone as first stated: one window)
C11_ChunkerOneWindow ==
    (cpc = "done" /\ WordCount(text) >= 1 /\ WordCount(text) <= chunk_size) =>
        /\ Len(chunks) = 1
        /\ Split(chunks[1]) = Split(text)

SameSearches(idx1, md1, idx2, md2) ==
    \A q \in Queries, d \in 0..MaxDocs, k \in 1..MaxK :
        SearchCall(idx1, md1, q, d, k) = SearchCall(idx2, md2, q, d, k)
\* C12: a processor that finishes loading while the files are those a
\* completed save of another processor wrote holds the saver's vectors and
\* metadata records, in the same order, and every search on it returns
\* what the same search on the saver returns.
C12_SaveLoadRoundTrip ==
    [][(Uploaded(Writer) /\ LoadMeta(Loader)) =>
          /\ index'[Loader] = index[Writer]
          /\ metadata'[Loader] = metadata[Writer]
          /\ SameSearches(index'[Loader], metadata'[Loader],
                          index[Writer], metadata[Writer])]_vars
\* C12 witness: a processor has loaded what another saved, two documents
\* with at least three chunks
C12_Witness ==
    /\ Uploaded(Writer)
    /\ pc[Loader] = "ready" /\ result[Loader] = "loaded"
    /\ metadata[Loader] = metadata[Writer]
    /\ Len(index[Loader]) >= 3
    /\ HasDoc(metadata[Loader], 1) /\ HasDoc(metadata[Loader], 2)

Suffix(sq, n) == SubSeq(sq, n + 1, Len(sq))
\* the text process_document chunks as page pn of document f
PageText(f, pn) == IF IsPdf(f) THEN Catalogue[f].pages[pn] ELSE Catalogue[f].data
PageCount(f) == IF IsPdf(f) THEN Len(Catalogue[f].pages) ELSE IF IsTxt(f) THEN 1 ELSE 0
\* the block blk, with its vectors vecs, is what one call on document f
\* with the id document_id has to append
BlockOf(blk, vecs, f, document_id) ==
    /\ Len(vecs) = Len(blk)
    /\ \A i \in 1..Len(blk) :
          /\ vecs[i] = Embed(blk[i].content)
          /\ blk[i].document_id = document_id
          /\ blk[i].pdf_name = Catalogue[f].name
          /\ blk[i].page \in 1..PageCount(f)
          /\ blk[i].chunk_index =
                Cardinality({j \in 1..(i - 1) : blk[j].page = blk[i].page})
          /\ LET ws == Split(PageText(f, blk[i].page))
                  from == blk[i].chunk_index * (DefaultChunkSize - DefaultOverlap)
              IN  /\ from < Len(ws)
                  /\ Split(blk[i].content) =
                        SubSeq(ws, from + 1, Min(from + DefaultChunkSize, Len(ws)))
    /\ \A i \in 1..Len(blk), j \in 1..Len(blk) :
          i < j => \/ blk[i].page < blk[j].page
                   \/ /\ blk[i].page = blk[j].page
                      /\ blk[i].chunk_index < blk[j].chunk_index
    /\ \A pn \in 1..PageCount(f) :
          HasNoWords(PageText(f, pn)) <=> ~(\E i \in 1..Len(blk) : blk[i].page = pn)
Ingests(p, f) == ProcessDocument(p, f) /\ result'[p] = "running"
\* C13: a process_document call that gets to the save has left the old
\* records and vectors in place and appended, at the end of the metadata,
\* the document's records in page order and chunk order within the page,
\* each with the call's document_id and name and a chunk_index counted from
\* 0 on its page, none for a page without text, and at the same rows of the
\* index the vectors of their contents.
C13_AppendedBlock ==
    [][\A f \in AllFiles :
          Ingests(Server, f) =>
              /\ IsPrefix(metadata[Server], metadata'[Server])
              /\ IsPrefix(index[Server], index'[Server])
              /\ Len(index[Server]) = Len(metadata[Server])
              /\ BlockOf(Suffix(metadata'[Server], Len(metadata[Server])),
                         Suffix(index'[Server], Len(index[Server])),
                         f, next_id)]_vars
\* (C13 but for the rows: the vectors are appended in the records' order,
\* whatever the sizes of index and metadata before the call)
C13_AppendedBlockAtEnd ==
    [][\A f \in AllFiles :
          Ingests(Server, f) =>
              /\ IsPrefix(metadata[Server], metadata'[Server])
              /\ IsPrefix(index[Server], index'[Server])
              /\ BlockOf(Suffix(metadata'[Server], Len(metadata[Server])),
                         Suffix(index'[Server], Len(index[Server])),
                         f, next_id)]_vars
\* (a call on the document of several chunks a page has completed as the
\* second one)
C13_Reached ==
    /\ HasReturned(Server)
    /\ returned[Server].chunks_processed = 3
    /\ returned[Server].pages_processed = 2
    /\ returned[Server].document_id = 2
    /\ Len(metadata[Server]) > 3

Asked == response.status # "none"
Named == Truthy(response.pdf_id)
Stored == LoadExisting(index_file, meta_file).metadata
\* the record the j-th entry of the response was made from
SourceOf(j) ==
    LET idx == response.indices[response.taken[j]]
    IN  Stored[(IF idx < 0 THEN idx + Len(Stored) ELSE idx) + 1]
\* the candidates, by position, whose record is of a document of user u
OwnedCandidates(u) ==
    SelectSeq([i \in 1..Len(response.indices) |-> i],
              LAMBDA i : /\ IsRow(response.indices[i], Len(Stored))
                         /\ GetDocumentId(Stored[response.indices[i] + 1])
                               \in UserDocumentIds(u))
\* no chunk of a document the caller does not own is in a response, and a
\* request naming a document is answered only for an owned one
NoForeignChunk ==
    Asked =>
        /\ \A j \in 1..Len(response.search_results) :
              /\ GetDocumentId(SourceOf(j)) \in UserDocumentIds(response.user)
              /\ response.search_results[j].content = SourceOf(j).content
        /\ (Named /\ response.status = "200") =>
              /\ IsNumeral(response.pdf_id)
              /\ ParseInt(response.pdf_id) \in UserDocumentIds(response.user)
        /\ (Named /\ IsNumeral(response.pdf_id)
               /\ ParseInt(response.pdf_id) \notin UserDocumentIds(response.user)) =>
              response.status = "403"
\* C14: a /search request naming a document is answered only if the user
\* owns it and refused otherwise; a request naming none, when index and
\* language model work, is answered with exactly the top-k candidates whose
\* document_id is of a document the user owns; no response holds a chunk of
\* a document the user does not own.
C14_SearchScopedToOwner ==
    /\ NoForeignChunk
    /\ (Asked /\ ~Named /\ response.status \notin {"500_load", "500_search", "500_llm"}) =>
          /\ response.status = "200"
          /\ response.taken = OwnedCandidates(response.user)
\* (the part of C14 that keeps users apart)
C14_NoForeignChunk == NoForeignChunk
\* (a user was given chunks of the document named while the index held a
\* document of the other user too)
C14_Reached ==
    /\ Asked /\ Named /\ response.status = "200"
    /\ response.search_results # <<>>
    /\ \E row \in documents : row.user_id # response.user
    /\ \E i \in 1..Len(Stored) :
          GetDocumentId(Stored[i]) \notin UserDocumentIds(response.user)

====
